---- MODULE Spec2Model ----
(***************************************************************************)
(* Model of tsproto's connection registry (connectionmanager.rs) and of    *)
(* the packet compressor/splitter (algorithms.rs).                         *)
(*                                                                         *)
(* Spec       the SocketConnectionManager with its spawned resender tasks  *)
(* SpecSplit  compress_and_split applied to bounded inputs                 *)
(***************************************************************************)
EXTENDS Integers, Sequences, FiniteSets, TLC

\* ------------------------------------------------------------------------
\* Bounds of the model
\* ------------------------------------------------------------------------
NumAddrs == 2       \* number of distinct socket addresses
MaxCons == 3        \* number of distinct Connection objects
MaxTasks == 2       \* number of resender tasks spawned in one behaviour
MaxData == 1        \* attached data T ranges over 0..MaxData, 0 = T::default()
MaxLen == 1000      \* largest serialised body length handed to the splitter
MaxDatagram == 1    \* incoming datagrams are numbered 0..MaxDatagram
NumKeys == 3        \* number of identity keys handed to hash_cash
OffsetMax == 40     \* stands for u64::MAX, where the hash_cash search stops
MaxGen == 1         \* generation ids range over 0..MaxGen
MaxCalls == 3       \* calls of encrypt/decrypt functions in one behaviour
NumPackets == 2     \* number of distinct outgoing packets (ids and bodies)

\* ------------------------------------------------------------------------
\* Program constants
\* ------------------------------------------------------------------------
MTU == 500
ClientHeaderSize == 13
ServerHeaderSize == 11
CompressMargin == 100
LevelMax == 255     \* level: u8
Sha1Len == 20       \* bytes of a SHA-1 digest
CacheSlots == 8     \* cache: &mut [CachedKey; 8]
KeyLen == 16        \* key and nonce: [u8; 16]
MacLen == 8         \* header.mac.copy_from_slice(&mac[..8])
IvOrigLen == 20     \* temp[6..26].copy_from_slice(data)
Iv31Len == 64       \* temp[6..].copy_from_slice(data) with temp: [0; 70]
DirClient == 49     \* 0x31, the header carries a c_id
DirServer == 48     \* 0x30

VARIABLES
    \* --- SocketConnectionManager and the reactor ---
    data,           \* manager.data: "none" | "some" (Option<Weak<..>>)
    containerAlive, \* does a strong reference to the Data container exist
    connections,    \* manager.connections: key -> [t, con]
    tasks,          \* futures spawned on the reactor handle, in spawn order
    panicked,       \* the thread has unwound from a panic
    last,           \* the latest call of the application into the manager
    \* --- compress_and_split ---
    is_client, p_type, body, called, choice, packets,
    \* --- hash_cash ---
    hc,             \* the call of hash_cash: key, level, position, result
    \* --- encrypt / decrypt ---
    cache,          \* side -> the [CachedKey; 8] of that side's connection
    iv,             \* the SharedIv of the connection
    header,         \* the Header of the packet at hand
    buf,            \* the data buffer of the packet at hand
    pkt,            \* how the packet at hand was encrypted
    cr              \* the latest call of an encrypt/decrypt function

splitVars == <<is_client, p_type, body, called, choice, packets>>
hashVars == <<hc>>
cryptVars == <<cache, iv, header, buf, pkt, cr>>
vars == <<data, containerAlive, connections, tasks, panicked, last,
          is_client, p_type, body, called, choice, packets, hc,
          cache, iv, header, buf, pkt, cr>>

\* no connection has keys, no packet is at hand
CryptIdle ==
    /\ cache = <<>>
    /\ iv = <<>>
    /\ header = <<>>
    /\ buf = <<>>
    /\ pkt = <<>>
    /\ cr = <<>>

\* ========================================================================
\* Connection registry
\* ========================================================================
Addrs == 1..NumAddrs
Cons == 1..MaxCons
DataValues == 0..MaxData
Datagrams == 0..MaxDatagram

\* Option: None is the empty sequence, Some(x) the sequence of x
None == <<>>
Some(x) == <<x>>

\* con.borrow().address: every Connection object has one fixed peer address
address(con) == ((con - 1) % NumAddrs) + 1

\* T::default()
DefaultData == 0

\* Map::insert(key, value): an existing record under key is replaced
\* (variant: an existing record is kept, as entry().or_insert() does)
MapInsert_keep_old(m, key, value) ==
    [k \in (DOMAIN m) \cup {key} |-> IF k \in DOMAIN m THEN m[k] ELSE value]
MapInsert(m, key, value) ==
    [k \in (DOMAIN m) \cup {key} |-> IF k = key THEN value ELSE m[k]]

\* Map::remove(&key)
MapRemove(m, key) == [k \in (DOMAIN m) \ {key} |-> m[k]]

EmptyMap == [k \in {} |-> 0]

\* remove_connection: the registry after the call
\* (variant: the record is looked up but stays in the map)
remove_connection_keep(conns, key) == conns
\* (variant: the whole map is cleared)
remove_connection_all(conns, key) == [k \in {} |-> 0]
remove_connection(conns, key) == MapRemove(conns, key)

\* remove_connection: the returned Option (0 = None)
remove_connection_ret(conns, key) ==
    IF key \in DOMAIN conns THEN conns[key].con ELSE 0

\* get_connection: the returned Option
get_connection(conns, key) ==
    IF key \in DOMAIN conns THEN Some(conns[key].con) ELSE None

\* get_data: the returned Option
get_data(conns, key) ==
    IF key \in DOMAIN conns THEN Some(conns[key].t) ELSE None

\* set_data: the registry after the call
\* (variant: a record is created for a key that has none)
set_data_map_insert(conns, key, t) ==
    [k \in (DOMAIN conns) \cup {key} |->
        IF k = key
          THEN [t |-> t, con |-> IF k \in DOMAIN conns
                                   THEN conns[k].con ELSE 0]
          ELSE conns[k]]
set_data_map(conns, key, t) ==
    IF key \in DOMAIN conns
      THEN [conns EXCEPT ![key].t = t]
      ELSE conns

\* set_data: the returned Option, the displaced value
set_data_ret(conns, key) ==
    IF key \in DOMAIN conns THEN Some(conns[key].t) ELSE None

\* get_connection_for_udp_packet: the returned Option
\* (variant: the source address is returned without a lookup)
udp_packet_key_any(conns, src_addr, udp_packet) == Some(src_addr)
udp_packet_key(conns, src_addr, udp_packet) ==
    IF src_addr \in DOMAIN conns THEN Some(src_addr) ELSE None

\* what the model remembers of a call: its name, key, other argument and
\* returned Option
Call(op, key, arg, ret) ==
    [op |-> op, key |-> key, arg |-> arg, ret |-> ret]

\* the future handed to handle.spawn by add_connection
NewTask(key, con) ==
    [key |-> key, con |-> con, pc |-> "spawned", exit |-> "none",
     upgraded |-> FALSE, removes |-> 0, removed |-> 0]

RegInit ==
    /\ data = "none"
    /\ containerAlive = TRUE
    /\ connections = EmptyMap
    /\ tasks = <<>>
    /\ panicked = FALSE
    /\ last = Call("none", 0, 0, None)
    /\ hc = [key |-> 0, level |-> 0, pc |-> "idle", offset |-> 0]
    /\ CryptIdle

\* SocketConnectionManager::set_data_ref
set_data_ref ==
    /\ ~panicked
    /\ containerAlive
    /\ data' = "some"
    /\ UNCHANGED <<containerAlive, connections, tasks, panicked, last>>

\* SocketConnectionManager::add_connection
add_connection(con) ==
    /\ ~panicked
    /\ containerAlive
    /\ Len(tasks) < MaxTasks
    \* a Connection is created by one handshake and registered once
    /\ \A i \in 1..Len(tasks) : tasks[i].con # con
    /\ LET key == address(con) IN
        /\ connections' = MapInsert(connections, key,
                                    [t |-> DefaultData, con |-> con])
        /\ IF data = "none"
             THEN \* self.data.as_ref().unwrap() panics
                  /\ panicked' = TRUE
                  /\ tasks' = tasks
                  /\ last' = Call("add_connection_panic", key, con, None)
             ELSE /\ tasks' = Append(tasks, NewTask(key, con))
                  /\ panicked' = panicked
                  /\ last' = Call("add_connection", key, con, Some(key))
    /\ UNCHANGED <<data, containerAlive>>

\* SocketConnectionManager::remove_connection called by the application
app_remove_connection(key) ==
    /\ ~panicked
    /\ containerAlive
    /\ connections' = remove_connection(connections, key)
    /\ last' = Call("remove_connection", key, 0,
                    IF remove_connection_ret(connections, key) = 0
                      THEN None
                      ELSE Some(remove_connection_ret(connections, key)))
    /\ UNCHANGED <<data, containerAlive, tasks, panicked>>

\* AttachedDataConnectionManager::set_data
set_data(key, t) ==
    /\ ~panicked
    /\ containerAlive
    /\ connections' = set_data_map(connections, key, t)
    /\ last' = Call("set_data", key, t, set_data_ret(connections, key))
    /\ UNCHANGED <<data, containerAlive, tasks, panicked>>

\* SocketConnectionManager::get_connection_for_udp_packet
get_connection_for_udp_packet(src_addr, udp_packet) ==
    /\ ~panicked
    /\ containerAlive
    /\ last' = Call("get_connection_for_udp_packet", src_addr, 0,
                    udp_packet_key(connections, src_addr, udp_packet))
    /\ UNCHANGED <<data, containerAlive, connections, tasks, panicked>>

\* the last strong reference to the Data container goes away; the manager
\* it owns and the records of the registry are dropped with it
drop_container ==
    /\ ~panicked
    /\ containerAlive
    /\ containerAlive' = FALSE
    /\ connections' = EmptyMap
    /\ UNCHANGED <<data, tasks, panicked, last>>

\* the reactor polls the lazy future for the first time
task_start(i) ==
    /\ ~panicked
    /\ tasks[i].pc = "spawned"
    /\ IF containerAlive
         THEN /\ tasks' = [tasks EXCEPT ![i].pc = "running"]
              /\ panicked' = panicked
         ELSE \* data.upgrade().unwrap() panics
              /\ tasks' = [tasks EXCEPT ![i].pc = "done",
                                        ![i].exit = "panic"]
              /\ panicked' = TRUE
    /\ UNCHANGED <<data, containerAlive, connections, last>>

\* the ResendFuture resolves with an error: the map_err closure runs
resender_err(i) ==
    /\ ~panicked
    /\ tasks[i].pc = "running"
    /\ IF containerAlive
         THEN /\ connections' = remove_connection(connections, tasks[i].key)
              /\ tasks' = [tasks EXCEPT
                    ![i].pc = "done", ![i].exit = "err",
                    ![i].upgraded = TRUE,
                    ![i].removes = @ + 1,
                    ![i].removed =
                        remove_connection_ret(connections, tasks[i].key)]
         ELSE /\ connections' = connections
              /\ tasks' = [tasks EXCEPT ![i].pc = "done", ![i].exit = "err"]
    /\ UNCHANGED <<data, containerAlive, panicked, last>>

\* the ResendFuture resolves successfully: map_err does not run its closure
resender_ok(i) ==
    /\ ~panicked
    /\ tasks[i].pc = "running"
    /\ tasks' = [tasks EXCEPT ![i].pc = "done", ![i].exit = "ok"]
    /\ UNCHANGED <<data, containerAlive, connections, panicked, last>>

SplitIdle ==
    /\ is_client = FALSE
    /\ p_type = "Init"
    /\ body = <<>>
    /\ called = FALSE
    /\ choice = "none"
    /\ packets = <<>>

Init == RegInit /\ SplitIdle

Next ==
    \/ set_data_ref /\ UNCHANGED <<splitVars, hashVars, cryptVars>>
    \/ \E con \in Cons : add_connection(con) /\ UNCHANGED <<splitVars, hashVars, cryptVars>>
    \/ \E key \in Addrs : app_remove_connection(key) /\ UNCHANGED <<splitVars, hashVars, cryptVars>>
    \/ \E key \in Addrs, t \in DataValues :
            set_data(key, t) /\ UNCHANGED <<splitVars, hashVars, cryptVars>>
    \/ \E src_addr \in Addrs, udp_packet \in Datagrams :
            get_connection_for_udp_packet(src_addr, udp_packet)
            /\ UNCHANGED <<splitVars, hashVars, cryptVars>>
    \/ drop_container /\ UNCHANGED <<splitVars, hashVars, cryptVars>>
    \/ \E i \in 1..Len(tasks) : task_start(i) /\ UNCHANGED <<splitVars, hashVars, cryptVars>>
    \/ \E i \in 1..Len(tasks) : resender_err(i) /\ UNCHANGED <<splitVars, hashVars, cryptVars>>
    \/ \E i \in 1..Len(tasks) : resender_ok(i) /\ UNCHANGED <<splitVars, hashVars, cryptVars>>

Spec == Init /\ [][Next]_vars


\* ========================================================================
\* compress_and_split
\* ========================================================================
\* outcomes of the external QuickLZ codec that the model distinguishes
CompressChoices == {"half", "shorter", "same", "longer"}

\* PacketType: the closed set of packet types
PacketTypes == {"Voice", "VoiceWhisper", "Command", "CommandLow", "Ping",
                "Pong", "Ack", "AckLow", "Init"}

\* the packet types handed to compress_and_split in the model
SplitTypes == {"Command", "CommandLow", "VoiceWhisper"}

\* header_size and max_size of compress_and_split
header_size(client) == IF client THEN ClientHeaderSize ELSE ServerHeaderSize
max_size(client) == MTU - header_size(client)

\* the serialised body the caller hands in: byte i depends on its position
Body(len) == [i \in 1..len |-> i % 256]

\* quicklz::compress(&data, Lvl1): the codec is an external collaborator,
\* only the length of its output matters to compress_and_split.  The output
\* is a 9 byte QuickLZ header followed by a payload; its length is a
\* nondeterministic choice.
quicklz_len(len, c) ==
    CASE c = "half"    -> (len \div 2) + 9
      [] c = "shorter" -> len - 1
      [] c = "same"    -> len
      [] OTHER         -> len + 9
quicklz_compress(d, c) ==
    [i \in 1..quicklz_len(Len(d), c) |->
        IF i <= 9 THEN 255 ELSE (d[((i * 7) % Len(d)) + 1] + 128) % 256]

\* "Use only if it is efficient": does the compressed form replace the data
keep_compressed_strict(d, cdata) == Len(cdata) < Len(d)
keep_compressed(d, cdata) == ~(Len(cdata) > Len(d))

\* Vec::split_off(at) panics when at > len (at is a usize: at < 0 stands
\* for an underflow of the subtraction that computes it)
split_off_panics(v, at) == at < 0 \/ at > Len(v)
\* Vec::split_off(at): what stays in the vector
split_off_keep(v, at) == SubSeq(v, 1, at)
\* Vec::split_off(at): the returned vector
split_off_ret(v, at) == SubSeq(v, at + 1, Len(v))

\* the index of the first split: everything behind the last full piece
rest_index_mod(len, max) == len % max
rest_index(len, max) == len - (len % max)

\* the while loop that splits full pieces off the back
RECURSIVE split_loop(_, _, _)
split_loop(d, splitted, max) ==
    IF Len(d) > 0
      THEN IF split_off_panics(d, Len(d) - max)
             THEN [panic |-> TRUE, datas |-> splitted]
             ELSE split_loop(split_off_keep(d, Len(d) - max),
                             Append(splitted,
                                    split_off_ret(d, Len(d) - max)),
                             max)
      ELSE [panic |-> FALSE, datas |-> splitted]

\* is the size limit applied to this packet
must_split_any(d, max, type) == Len(d) > max
must_split_strict(d, max, type) ==
    ~(Len(d) < max \/ type = "VoiceWhisper")
must_split(d, max, type) ==
    ~(Len(d) <= max \/ type = "VoiceWhisper")

\* the else branch "Split"
split_data(d, max) ==
    IF split_off_panics(d, rest_index(Len(d), max))
      THEN [panic |-> TRUE, datas |-> <<>>]
      ELSE split_loop(split_off_keep(d, rest_index(Len(d), max)),
                      <<split_off_ret(d, rest_index(Len(d), max))>>, max)

\* datas.into_iter().rev()
Reverse_none(s) == s
Reverse(s) == [i \in 1..Len(s) |-> s[Len(s) + 1 - i]]

\* which pieces get the fragmented flag; i counts from 0 as in enumerate()
fragmented_flag_all(fragmented, i, len) == fragmented
fragmented_flag(fragmented, i, len) ==
    fragmented /\ (i = 0 \/ i = len - 1)

\* which pieces get the compressed flag
compressed_flag_all(compressed, i) == compressed
compressed_flag(compressed, i) == i = 0 /\ compressed

\* the type every header is given
header_type(type) == type

\* the final loop that builds the headers
make_packets(datas, compressed, type) ==
    LET len == Len(datas)
        fragmented == len > 1
        rev == Reverse(datas)
    IN [k \in 1..len |->
          [p_type |-> header_type(type),
           compressed |-> compressed_flag(compressed, k - 1),
           fragmented |-> fragmented_flag(fragmented, k - 1, len),
           data |-> rev[k]]]

\* Does the data go through QuickLZ at all
wants_compression(d, max) == Len(d) > max - CompressMargin

\* compress_and_split(is_client, packet); c resolves the codec's output
compress_and_split(client, type, d, c) ==
    LET max == max_size(client) IN
    IF wants_compression(d, max)
      THEN LET cdata == quicklz_compress(d, c)
               compressed == keep_compressed(d, cdata)
               d2 == IF compressed THEN cdata ELSE d
           IN IF ~must_split(d2, max, type)
                THEN [panic |-> FALSE,
                      packets |-> make_packets(<<d2>>, compressed, type)]
                ELSE LET sp == split_data(d2, max) IN
                     [panic |-> sp.panic,
                      packets |-> IF sp.panic THEN <<>>
                                  ELSE make_packets(sp.datas, compressed,
                                                    type)]
      ELSE [panic |-> FALSE, packets |-> make_packets(<<d>>, FALSE, type)]

SplitInit ==
    /\ is_client \in BOOLEAN
    /\ p_type \in SplitTypes
    /\ \E len \in 0..MaxLen : body = Body(len)
    /\ called = FALSE
    /\ choice = "none"
    /\ packets = <<>>

\* one call of compress_and_split on the drawn packet
call_compress_and_split(c) ==
    /\ ~called
    /\ ~panicked
    /\ \E r \in {compress_and_split(is_client, p_type, body, c)} :
        /\ packets' = r.packets
        /\ panicked' = r.panic
    /\ called' = TRUE
    /\ choice' = IF wants_compression(body, max_size(is_client))
                   THEN c ELSE "none"
    /\ UNCHANGED <<is_client, p_type, body,
                   data, containerAlive, connections, tasks, last, hc,
                   cryptVars>>

InitSplit == RegInit /\ SplitInit

NextSplit == \E c \in CompressChoices : call_compress_and_split(c)

SpecSplit == InitSplit /\ [][NextSplit]_vars

\* compress_and_split applied to packets of every type
SplitInitAll ==
    /\ is_client \in BOOLEAN
    /\ p_type \in PacketTypes
    /\ \E len \in 0..MaxLen : body = Body(len)
    /\ called = FALSE
    /\ choice = "none"
    /\ packets = <<>>

InitSplitAll == RegInit /\ SplitInitAll

SpecSplitAll == InitSplitAll /\ [][NextSplit]_vars


\* ========================================================================
\* hash_cash
\* ========================================================================
HashKeys == 1..NumKeys
Levels == 0..LevelMax

\* EccKeyPubP256::to_ts: the textual form omega of a key, as character codes
to_ts(key) == <<77, 69, 64 + key, 71 + 2 * key>>

\* the decimal digits of n as character codes, what "{}" prints for a u64
RECURSIVE Decimal(_)
Decimal(n) ==
    IF n < 10 THEN <<48 + n>> ELSE Append(Decimal(n \div 10), 48 + (n % 10))

\* format!("{}{}", omega, offset).as_bytes()
format_omega_offset(omega, offset) == omega \o Decimal(offset)

\* digest::digest(&digest::SHA1, bytes): the digest algorithm is an external
\* primitive; the model uses a small deterministic mixing function with a
\* digest of Sha1Len bytes, of which only the first two vary, so that a
\* digest of zero bytes only is met within OffsetMax offsets
MixPrime == 32749
\* 31 ^ e modulo MixPrime
MixSquare(x) == (x * x) % MixPrime
RECURSIVE MixPow(_)
MixPow(e) ==
    IF e = 0 THEN 1 ELSE
    IF e % 2 = 1 THEN (31 * MixPow(e - 1)) % MixPrime
    ELSE MixSquare(MixPow(e \div 2))
\* the polynomial in 31 with coefficients bytes[lo..hi] modulo MixPrime
RECURSIVE MixRange(_, _, _)
MixRange(bytes, lo, hi) ==
    IF lo > hi THEN 0 ELSE
    IF lo = hi THEN bytes[lo] % MixPrime ELSE
    (MixRange(bytes, lo, (lo + hi) \div 2) * MixPow(hi - ((lo + hi) \div 2))
        + MixRange(bytes, ((lo + hi) \div 2) + 1, hi)) % MixPrime
Mix(bytes) ==
    (7 * MixPow(Len(bytes)) + MixRange(bytes, 1, Len(bytes))) % MixPrime

RECURSIVE Pow(_, _)
Pow(b, e) == IF e = 0 THEN 1 ELSE b * Pow(b, e - 1)

\* digit j of h in base 4, for h below 16
Digit4(h, j) == IF j > 2 THEN 0 ELSE (h \div Pow(4, j - 1)) % 4

Digits4(h, n) == [j \in 1..n |-> Digit4(h, j) * 37]
sha1(bytes) == Digits4(Mix(bytes) % 16, Sha1Len)

\* u8::leading_zeros
leading_zeros(d) ==
    IF d >= 128 THEN 0 ELSE
    IF d >= 64 THEN 1 ELSE
    IF d >= 32 THEN 2 ELSE
    IF d >= 16 THEN 3 ELSE
    IF d >= 8 THEN 4 ELSE
    IF d >= 4 THEN 5 ELSE
    IF d >= 2 THEN 6 ELSE
    IF d >= 1 THEN 7 ELSE 8

\* the for loop of get_hash_cash_level from byte k on, res counted so far
\* (variant: the loop stops at the first non-zero byte without counting it)
RECURSIVE level_loop_bytes(_, _, _)
level_loop_bytes(digest, k, res) ==
    IF k > Len(digest) THEN res
    ELSE IF digest[k] = 0
           THEN level_loop_bytes(digest, k + 1, res + 8)
           ELSE res
RECURSIVE level_loop(_, _, _)
level_loop(digest, k, res) ==
    IF k > Len(digest) THEN res
    ELSE IF digest[k] = 0
           THEN level_loop(digest, k + 1, res + 8)
           ELSE res + leading_zeros(digest[k])

\* get_hash_cash_level(omega, offset)
get_hash_cash_level(omega, offset) ==
    level_loop(sha1(format_omega_offset(omega, offset)), 1, 0)

\* the while loop of hash_cash, from offset on
RECURSIVE hash_cash_loop(_, _, _)
hash_cash_loop(omega, level, offset) ==
    IF offset < OffsetMax /\ get_hash_cash_level(omega, offset) < level
      THEN hash_cash_loop(omega, level, offset + 1)
      ELSE offset

\* hash_cash(key, level)
hash_cash(key, level) == hash_cash_loop(to_ts(key), level, 0)

HashInit ==
    /\ \E key \in HashKeys, level \in Levels :
         hc = [key |-> key, level |-> level, pc |-> "start", offset |-> 0]

\* one call of hash_cash
call_hash_cash ==
    /\ hc.pc = "start"
    /\ hc' = [hc EXCEPT !.pc = "done",
                        !.offset = hash_cash(hc.key, hc.level)]
    /\ UNCHANGED <<data, containerAlive, connections, tasks, panicked, last,
                   splitVars, cryptVars>>

InitHash ==
    /\ data = "none"
    /\ containerAlive = TRUE
    /\ connections = EmptyMap
    /\ tasks = <<>>
    /\ panicked = FALSE
    /\ last = Call("none", 0, 0, None)
    /\ SplitIdle
    /\ CryptIdle
    /\ HashInit

NextHash == call_hash_cash

SpecHash == InitHash /\ [][NextHash]_vars

\* ========================================================================
\* Key cache, encrypt and decrypt
\* ========================================================================
Sides == {"sender", "receiver"}
GenIds == 0..MaxGen
\* header.p_type bytes: Command with the new-protocol flag, and Init
HeaderTypes == {34, 8}
IvVariants == {"ProtocolOrig", "Protocol31"}

Zeros(n) == [j \in 1..n |-> 0]

\* a ^ b on u8
RECURSIVE Xor(_, _)
Xor(a, b) ==
    IF a = 0 THEN b ELSE
    IF b = 0 THEN a ELSE
    2 * Xor(a \div 2, b \div 2) + ((a + b) % 2)

\* SharedIv::ProtocolOrig([u8; 20]) and SharedIv::Protocol31([u8; 64])
SharedIv(variant) ==
    [variant |-> variant,
     data |-> IF variant = "ProtocolOrig"
                THEN [j \in 1..IvOrigLen |-> (7 * j + 3) % 256]
                ELSE [j \in 1..Iv31Len |-> (11 * j + 5) % 256]]

\* CachedKey::default() with the generation it starts with
CachedKey0(g0) ==
    [key |-> Zeros(KeyLen), nonce |-> Zeros(KeyLen), generation_id |-> g0]

\* Header::default() with the given type byte
Header0(t) == [mac |-> Zeros(MacLen), p_id |-> 0, c_id |-> None, p_type |-> t]

\* the packets a sender encrypts: id, client id and body
OutPacket(i) ==
    [p_id |-> (258 * (i - 1)) % 65536,
     c_id |-> IF i % 2 = 0 THEN Some(i) ELSE None,
     data |-> [j \in 1..i |-> (37 * i * j) % 256]]
Outgoing == {OutPacket(i) : i \in 1..NumPackets}

\* ::FAKE_KEY and ::FAKE_NONCE
FAKE_KEY ==
    <<99, 58, 92, 119, 105, 110, 100, 111, 119, 115, 92, 115, 121, 115, 116,
      101>>
FAKE_NONCE ==
    <<109, 92, 102, 105, 114, 101, 119, 97, 108, 108, 51, 50, 46, 99, 112,
      108>>

\* (key, nonce) pairs handed to encrypt_key_nonce and decrypt_key_nonce
KeyNonces == {<<[j \in 1..KeyLen |-> j], [j \in 1..KeyLen |-> 2 * j]>>}

\* buf.write_u32::<NetworkEndian>(generation_id)
write_u32(g) ==
    <<(g \div 16777216) % 256, (g \div 65536) % 256, (g \div 256) % 256,
      g % 256>>

\* temp[..len], the input of the key derivation
temp(hdr, generation_id, shared_iv) ==
    <<IF hdr.c_id # None THEN DirClient ELSE DirServer, hdr.p_type % 16>>
        \o write_u32(generation_id) \o shared_iv.data

\* digest::digest(&digest::SHA256, bytes): an external primitive, modelled
\* by a deterministic mixing function with a digest of 2 * KeyLen bytes
\* from which the mixed value can be read back
MixBytes(h, n) == [j \in 1..n |-> (h * j + (h \div 256) + j) % 256]
sha256(bytes) == MixBytes(Mix(bytes), 2 * KeyLen)

\* the body of "if cache.generation_id != generation_id": key and nonce
\* are overwritten
update_cache(slot, hdr, generation_id, shared_iv) ==
    LET keynonce == sha256(temp(hdr, generation_id, shared_iv)) IN
    [slot EXCEPT !.key = SubSeq(keynonce, 1, KeyLen),
                 !.nonce = SubSeq(keynonce, KeyLen + 1, 2 * KeyLen)]

\* cache[(header.p_type & 0xf) as usize] panics out of the array
slot_index(hdr) == hdr.p_type % 16
index_panics(hdr) == slot_index(hdr) >= CacheSlots

\* key[0] ^= (header.p_id >> 8) as u8; key[1] ^= (header.p_id & 0xff) as u8
xor_p_id(key, p_id) ==
    [key EXCEPT ![1] = Xor(@, (p_id \div 256) % 256),
                ![2] = Xor(@, p_id % 256)]

\* the slot after "let mut key = cache.key" and the XOR on key: the array
\* is copied, the slot is not touched
\* (variant: the XOR goes to the slot's key itself)
slot_after_xor_in_place(slot, key) == [slot EXCEPT !.key = key]
slot_after_xor(slot, key) == slot

\* create_key_nonce, for a header whose slot is inside the array: the
\* slots afterwards and the returned (key, nonce)
create_key_nonce(hdr, generation_id, shared_iv, slots) ==
    LET slot == slots[slot_index(hdr)]
        rebuilt == slot.generation_id # generation_id
        fresh == IF rebuilt
                   THEN update_cache(slot, hdr, generation_id, shared_iv)
                   ELSE slot
    IN [slots |-> [slots EXCEPT ![slot_index(hdr)] =
                      slot_after_xor(fresh, xor_p_id(fresh.key, hdr.p_id))],
        key |-> xor_p_id(fresh.key, hdr.p_id),
        nonce |-> fresh.nonce,
        rebuilt |-> rebuilt]

\* Header::write_meta: p_id, c_id if present, and the type byte
write_meta(hdr) ==
    <<hdr.p_id \div 256, hdr.p_id % 256>>
        \o (IF hdr.c_id # None
              THEN <<hdr.c_id[1] \div 256, hdr.c_id[1] % 256>>
              ELSE <<>>)
        \o <<hdr.p_type>>

\* crypto::Eax, an authenticated cipher: a key stream added to the data and
\* a tag of KeyLen bytes over key, nonce, associated data and ciphertext
Eax_stream(key, nonce, j) ==
    (key[((j - 1) % KeyLen) + 1] + 3 * nonce[((j - 1) % KeyLen) + 1] + j)
        % 256
Eax_tag(key, nonce, meta, enc) ==
    MixBytes(Mix(key \o nonce \o meta \o enc), KeyLen)
\* Eax::encrypt(key, nonce, meta, data) = (mac, enc)
Eax_encrypt(key, nonce, meta, d) ==
    LET enc == [j \in 1..Len(d) |-> (d[j] + Eax_stream(key, nonce, j)) % 256]
    IN [mac |-> Eax_tag(key, nonce, meta, enc), enc |-> enc]
\* Eax::decrypt(key, nonce, meta, data, mac): Err if the tag does not start
\* with mac
Eax_decrypt(key, nonce, meta, d, mac) ==
    [ok |-> SubSeq(Eax_tag(key, nonce, meta, d), 1, Len(mac)) = mac,
     dec |-> [j \in 1..Len(d) |->
                (d[j] + 256 - Eax_stream(key, nonce, j)) % 256]]

\* encrypt_key_nonce: the header and the data afterwards
encrypt_key_nonce(hdr, d, key, nonce) ==
    LET r == Eax_encrypt(key, nonce, write_meta(hdr), d) IN
    [header |-> [hdr EXCEPT !.mac = SubSeq(r.mac, 1, MacLen)],
     data |-> r.enc]

\* the data after decrypt_key_nonce: "?" returns before copy_from_slice
\* (variant: the decrypted bytes are copied whatever the result)
decrypt_data_always(r, d) == r.dec
decrypt_data(r, d) == IF r.ok THEN r.dec ELSE d

\* decrypt_key_nonce: the result and the data afterwards
decrypt_key_nonce(hdr, d, key, nonce) ==
    LET r == Eax_decrypt(key, nonce, write_meta(hdr), d, hdr.mac) IN
    [ok |-> r.ok, data |-> decrypt_data(r, d)]

\* the record of a call
CryptCall(op, ok, panic, side, gen, key, nonce, rebuilt, stored, before, intact) ==
    [op |-> op, n |-> cr.n + 1, ok |-> ok, panicked |-> panic,
     side |-> side, gen |-> gen, key |-> key, nonce |-> nonce,
     rebuilt |-> rebuilt, stored |-> stored, before |-> before,
     intact |-> intact]

\* the packet at hand as the encrypting call left it
Packet(how, gen, key, nonce, plain) ==
    [how |-> how, gen |-> gen, key |-> key, nonce |-> nonce,
     plain |-> plain, intact |-> TRUE]

CanCall == cr.n < MaxCalls /\ ~cr.panicked

CryptInit ==
    \E t \in HeaderTypes, g0 \in GenIds, variant \in IvVariants :
        /\ cache = [s \in Sides |-> [k \in 0..(CacheSlots - 1) |->
                                        CachedKey0(g0)]]
        /\ iv = SharedIv(variant)
        /\ header = Header0(t)
        /\ buf = <<>>
        /\ pkt = [Packet("none", 0, <<>>, <<>>, <<>>) EXCEPT
                     !.intact = FALSE]
        /\ cr = [op |-> "none", n |-> 0, ok |-> TRUE, panicked |-> FALSE,
                 side |-> "sender", gen |-> 0, key |-> <<>>, nonce |-> <<>>,
                 rebuilt |-> FALSE, stored |-> g0, before |-> <<>>,
                 intact |-> FALSE]

\* encrypt(header, data, generation_id, iv, cache) on a new packet
call_encrypt(side, generation_id, out) ==
    /\ CanCall
    /\ LET hdr == [header EXCEPT !.p_id = out.p_id, !.c_id = out.c_id] IN
       IF index_panics(hdr)
         THEN /\ cr' = CryptCall("encrypt", FALSE, TRUE, side,
                                 generation_id, <<>>, <<>>, FALSE, 0,
                                 out.data, FALSE)
              /\ header' = hdr
              /\ buf' = out.data
              /\ UNCHANGED <<cache, pkt>>
         ELSE \E kn \in {create_key_nonce(hdr, generation_id, iv,
                                          cache[side])} :
              \E r \in {encrypt_key_nonce(hdr, out.data, kn.key,
                                          kn.nonce)} :
                /\ cache' = [cache EXCEPT ![side] = kn.slots]
                /\ header' = r.header
                /\ buf' = r.data
                /\ pkt' = Packet("encrypt", generation_id, kn.key,
                                 kn.nonce, out.data)
                /\ cr' = CryptCall("encrypt", TRUE, FALSE, side,
                                   generation_id, kn.key, kn.nonce,
                                   kn.rebuilt,
                                   cache[side][slot_index(hdr)]
                                       .generation_id,
                                   out.data, FALSE)
    /\ UNCHANGED iv

\* decrypt(header, data, generation_id, iv, cache) on the packet at hand
call_decrypt(side, generation_id) ==
    /\ CanCall
    /\ pkt.how # "none"
    /\ IF index_panics(header)
         THEN /\ cr' = CryptCall("decrypt", FALSE, TRUE, side,
                                 generation_id, <<>>, <<>>, FALSE, 0, buf,
                                 pkt.intact)
              /\ UNCHANGED <<cache, buf, pkt>>
         ELSE \E kn \in {create_key_nonce(header, generation_id, iv,
                                          cache[side])} :
              \E r \in {decrypt_key_nonce(header, buf, kn.key, kn.nonce)} :
                /\ cache' = [cache EXCEPT ![side] = kn.slots]
                /\ buf' = r.data
                /\ pkt' = [pkt EXCEPT !.intact = pkt.intact /\ ~r.ok]
                /\ cr' = CryptCall("decrypt", r.ok, FALSE, side,
                                   generation_id, kn.key, kn.nonce,
                                   kn.rebuilt,
                                   cache[side][slot_index(header)]
                                       .generation_id,
                                   buf, pkt.intact)
    /\ UNCHANGED <<iv, header>>

\* encrypt_key_nonce(header, data, key, nonce) on a new packet
call_encrypt_key_nonce(how, key, nonce, out) ==
    /\ CanCall
    /\ LET hdr == [header EXCEPT !.p_id = out.p_id, !.c_id = out.c_id] IN
       \E r \in {encrypt_key_nonce(hdr, out.data, key, nonce)} :
         /\ header' = r.header
         /\ buf' = r.data
         /\ pkt' = Packet(how, 0, key, nonce, out.data)
         /\ cr' = CryptCall(how, TRUE, FALSE, "sender", 0, key, nonce,
                            FALSE, 0, out.data, FALSE)
    /\ UNCHANGED <<cache, iv>>

\* decrypt_key_nonce(header, data, key, nonce) on the packet at hand
call_decrypt_key_nonce(how, key, nonce) ==
    /\ CanCall
    /\ pkt.how # "none"
    /\ \E r \in {decrypt_key_nonce(header, buf, key, nonce)} :
         /\ buf' = r.data
         /\ pkt' = [pkt EXCEPT !.intact = pkt.intact /\ ~r.ok]
         /\ cr' = CryptCall(how, r.ok, FALSE, "receiver", 0, key, nonce,
                            FALSE, 0, buf, pkt.intact)
    /\ UNCHANGED <<cache, iv, header>>

\* encrypt_fake(header, data)
call_encrypt_fake(out) ==
    call_encrypt_key_nonce("encrypt_fake", FAKE_KEY, FAKE_NONCE, out)

\* decrypt_fake(header, data)
call_decrypt_fake ==
    call_decrypt_key_nonce("decrypt_fake", FAKE_KEY, FAKE_NONCE)

\* the network alters the packet at hand: the first byte of the MAC or the
\* first byte of the data
corrupt(where) ==
    /\ pkt.intact
    /\ ~cr.panicked
    /\ IF where = "mac"
         THEN /\ header' = [header EXCEPT !.mac[1] = (@ + 1) % 256]
              /\ UNCHANGED buf
         ELSE /\ Len(buf) > 0
              /\ buf' = [buf EXCEPT ![1] = (@ + 1) % 256]
              /\ UNCHANGED header
    /\ pkt' = [pkt EXCEPT !.intact = FALSE]
    /\ cr' = [cr EXCEPT !.op = "corrupt"]
    /\ UNCHANGED <<cache, iv>>

RestIdle ==
    /\ data = "none"
    /\ containerAlive = TRUE
    /\ connections = EmptyMap
    /\ tasks = <<>>
    /\ panicked = FALSE
    /\ last = Call("none", 0, 0, None)
    /\ SplitIdle
    /\ hc = [key |-> 0, level |-> 0, pc |-> "idle", offset |-> 0]

InitCrypt == RestIdle /\ CryptInit

restVars ==
    <<data, containerAlive, connections, tasks, panicked, last, splitVars,
      hashVars>>

NextCrypt ==
    \/ \E g \in GenIds, out \in Outgoing :
           call_encrypt("sender", g, out) /\ UNCHANGED restVars
    \/ \E g \in GenIds : call_decrypt("receiver", g) /\ UNCHANGED restVars
    \/ \E kn \in KeyNonces, out \in Outgoing :
           call_encrypt_key_nonce("encrypt_key_nonce", kn[1], kn[2], out)
               /\ UNCHANGED restVars
    \/ \E kn \in KeyNonces :
           call_decrypt_key_nonce("decrypt_key_nonce", kn[1], kn[2])
               /\ UNCHANGED restVars
    \/ \E out \in Outgoing : call_encrypt_fake(out) /\ UNCHANGED restVars
    \/ call_decrypt_fake /\ UNCHANGED restVars
    \/ \E where \in {"mac", "data"} : corrupt(where) /\ UNCHANGED restVars

SpecCrypt == InitCrypt /\ [][NextCrypt]_vars


\* ========================================================================
\* Properties of the connection registry (checked under Spec)
\* ========================================================================
TaskIds == 1..Len(tasks)

\* C1 (as stated): whenever a resender task has terminated, with an error
\* or with a successful completion, it has called remove_connection(key)
\* exactly once.
C1_RemoveOnAnyExit ==
    \A i \in TaskIds :
        (tasks[i].pc = "done" /\ tasks[i].exit \in {"ok", "err"})
            => tasks[i].removes = 1

\* C1 (amended): a resender task that terminates with an error while the
\* Data container still exists calls remove_connection(key) exactly once and
\* right after the call no connection is registered under key; a task that
\* completes successfully, or that ends with an error after the container
\* was dropped, calls remove_connection not at all and leaves the registry
\* as it is.
C1_RemoveOnError ==
    [][\A i \in TaskIds :
         (tasks[i].pc = "running" /\ tasks'[i].pc = "done") =>
            IF tasks'[i].exit = "err" /\ containerAlive
              THEN /\ tasks'[i].removes = 1
                   /\ tasks[i].key \notin DOMAIN connections'
                   /\ \A k \in DOMAIN connections' :
                        k \in DOMAIN connections
                        /\ connections'[k] = connections[k]
              ELSE /\ tasks'[i].removes = 0
                   /\ connections' = connections]_vars

\* a task has failed while its own connection was registered, and removed it
C1_Witness ==
    \E i \in TaskIds :
        /\ tasks[i].exit = "err"
        /\ tasks[i].upgraded
        /\ tasks[i].removes = 1
        /\ tasks[i].removed = tasks[i].con
        /\ tasks[i].key \notin DOMAIN connections

\* C3: a failing resender task never removes a connection other than the
\* one it was spawned for.
C3_RemovesOnlyOwnConnection ==
    \A i \in TaskIds : tasks[i].removed \in {0, tasks[i].con}

\* C4: a task that runs after the Data container was dropped does not
\* panic and removes nothing, both at its start and at its exit with an
\* error.
C4_SilentExitWhenDropped ==
    \A i \in TaskIds :
        /\ tasks[i].exit # "panic"
        /\ (tasks[i].pc = "done" /\ ~tasks[i].upgraded)
              => tasks[i].removes = 0

\* ========================================================================
\* Properties of compress_and_split (checked under SpecSplit)
\* ========================================================================
Returned == called /\ ~panicked
Budget == max_size(is_client)
NumFragments == Len(packets)

\* what the codec returned in the call, when it was used
CData == quicklz_compress(body, choice)

RECURSIVE ConcatData(_, _)
ConcatData(ps, k) ==
    IF k = 0 THEN <<>> ELSE ConcatData(ps, k - 1) \o ps[k].data

\* the fragment bodies joined in wire order
Sent == ConcatData(packets, Len(packets))

CeilDiv(a, b) == (a + b - 1) \div b

\* C2: a Command or CommandLow packet whose (possibly compressed) body of
\* length L exceeds body_budget yields exactly ceil(L / body_budget)
\* fragments, each of at most body_budget bytes.
C2_FragmentCount ==
    (Returned /\ p_type \in {"Command", "CommandLow"}
       /\ Len(Sent) > Budget)
    => /\ NumFragments = CeilDiv(Len(Sent), Budget)
       /\ \A k \in 1..NumFragments : Len(packets[k].data) <= Budget

\* C5 (as stated): a body longer than body_budget - 100 is replaced by the
\* QuickLZ output, with the compressed flag, if and only if that output is
\* strictly shorter; shorter bodies are never compressed.
C5_KeepIffStrictlyShorter ==
    Returned =>
      IF Len(body) > Budget - CompressMargin
        THEN /\ choice # "none"
             /\ IF Len(CData) < Len(body)
                  THEN packets[1].compressed /\ Sent = CData
                  ELSE ~packets[1].compressed /\ Sent = body
        ELSE /\ \A k \in 1..NumFragments : ~packets[k].compressed
             /\ Sent = body

\* C5 (amended): a body longer than body_budget - 100 is replaced by the
\* QuickLZ output, with the compressed flag, if and only if that output is
\* not longer than the original (shorter or of equal length); when it is
\* longer the original bytes are sent without the flag; bodies of at most
\* body_budget - 100 bytes are never compressed.
C5_KeepIffNotLonger ==
    Returned =>
      IF Len(body) > Budget - CompressMargin
        THEN /\ choice # "none"
             /\ IF Len(CData) <= Len(body)
                  THEN packets[1].compressed /\ Sent = CData
                  ELSE ~packets[1].compressed /\ Sent = body
        ELSE /\ \A k \in 1..NumFragments : ~packets[k].compressed
             /\ Sent = body

\* the codec returned as many bytes as it was given and its output was kept
C5_Witness ==
    /\ Returned
    /\ choice = "same"
    /\ Len(CData) = Len(body)
    /\ packets[1].compressed
    /\ Sent = CData

\* C6: with N > 1 fragments exactly those at wire positions 0 and N-1 carry
\* the fragmented flag; with N = 1 none does.
C6_FragmentedFirstAndLast ==
    Returned =>
      \A k \in 1..NumFragments :
        packets[k].fragmented <=>
            (NumFragments > 1 /\ (k = 1 \/ k = NumFragments))

\* three non-empty fragments, the middle one without the flag
C6_Witness ==
    /\ Returned
    /\ NumFragments = 3
    /\ Len(packets[3].data) > 0
    /\ packets[1].fragmented
    /\ ~packets[2].fragmented
    /\ packets[3].fragmented

\* C7: the fragment bodies joined in wire order are the full (possibly
\* compressed) body; every fragment but the last has exactly body_budget
\* bytes, and the last one of several has at most body_budget bytes.
C7_ConcatIsBody ==
    Returned =>
      /\ NumFragments >= 1
      /\ Sent = (IF packets[1].compressed THEN CData ELSE body)
      /\ \A k \in 1..(NumFragments - 1) : Len(packets[k].data) = Budget
      /\ NumFragments > 1 => Len(packets[NumFragments].data) <= Budget

\* a compressed body split into two full pieces and a shorter residual one
C7_Witness ==
    /\ Returned
    /\ NumFragments = 3
    /\ packets[1].compressed
    /\ Len(packets[3].data) > 0
    /\ Len(packets[3].data) < Budget

\* C8: the compressed flag is carried by the first fragment at most, and
\* by it exactly when the compressed form was retained; every header has
\* the type of the input packet.
C8_CompressedOnFirstOnly ==
    Returned =>
      /\ NumFragments >= 1
      /\ \A k \in 2..NumFragments : ~packets[k].compressed
      /\ packets[1].compressed <=> (choice # "none" /\ Sent = CData)
      /\ \A k \in 1..NumFragments : packets[k].p_type = p_type

\* a retained compressed body that had to be split
C8_Witness ==
    /\ Returned
    /\ NumFragments >= 2
    /\ p_type = "CommandLow"
    /\ choice # "none"
    /\ Sent = CData
    /\ packets[1].compressed
    /\ ~packets[2].compressed

\* C9: a body of at most body_budget bytes yields exactly one fragment,
\* without the fragmented flag.
C9_SmallBodySingleFragment ==
    (Returned /\ Len(body) <= Budget)
    => /\ NumFragments = 1
       /\ ~packets[1].fragmented

\* a body of exactly body_budget bytes sent uncompressed
C9_Witness ==
    /\ Returned
    /\ p_type = "Command"
    /\ Len(body) = Budget
    /\ NumFragments = 1
    /\ Sent = body

\* C10: a VoiceWhisper packet of any length yields exactly one fragment,
\* without the fragmented flag.
C10_WhisperNeverSplit ==
    (Returned /\ p_type = "VoiceWhisper")
    => /\ NumFragments = 1
       /\ ~packets[1].fragmented

\* a whisper body of twice the MTU sent as one fragment
C10_Witness ==
    /\ Returned
    /\ p_type = "VoiceWhisper"
    /\ Len(body) = 2 * MTU
    /\ NumFragments = 1
    /\ Len(packets[1].data) > Budget

IsCall(op) == last'.op = op /\ last' # last

\* the addresses under which a connection is registered
Registered(conns) ==
    {a \in Addrs : \E k \in DOMAIN conns : address(conns[k].con) = a}

\* the records of all keys but key are the same in both registries
SameElsewhere(before, after, key) ==
    /\ (DOMAIN after) \ {key} = (DOMAIN before) \ {key}
    /\ \A k \in (DOMAIN after) \ {key} : after[k] = before[k]

\* C14: get_connection_for_udp_packet(src_addr, datagram) returns
\* Some(src_addr) if and only if a connection with address src_addr is
\* registered, whatever the datagram is, and leaves the registry unchanged.
C14_UdpLookup ==
    [][IsCall("get_connection_for_udp_packet") =>
         /\ connections' = connections
         /\ IF last'.key \in Registered(connections)
              THEN last'.ret = Some(last'.key)
              ELSE last'.ret = None]_vars

\* a registered address has been looked up after a resender removed another
C14_Witness ==
    /\ last.op = "get_connection_for_udp_packet"
    /\ last.ret = Some(last.key)
    /\ Cardinality(DOMAIN connections) = 1
    /\ \E i \in 1..Len(tasks) : tasks[i].removes = 1

\* C15: add_connection(con) files con under key = con.address with the
\* default attached data and returns key; afterwards get_connection(key)
\* returns con and get_data(key) the default; every record is filed under
\* the address of its connection, so that no address has two records and a
\* connection added for a registered address takes the place of the old one.
C15_AddConnection ==
    [][IsCall("add_connection") =>
         /\ last'.ret = Some(address(last'.arg))
         /\ get_connection(connections', address(last'.arg))
                = Some(last'.arg)
         /\ get_data(connections', address(last'.arg)) = Some(DefaultData)
         /\ SameElsewhere(connections, connections', address(last'.arg))
         /\ \A k \in DOMAIN connections' :
                address(connections'[k].con) = k]_vars

\* a connection has been added for an address for which another connection
\* had been added before
C15_Witness ==
    /\ last.op = "add_connection"
    /\ \E i \in 1..Len(tasks) :
          /\ tasks[i].key = last.key
          /\ tasks[i].con # last.arg
    /\ get_connection(connections, last.key) = Some(last.arg)
    /\ get_data(connections, last.key) = Some(DefaultData)

\* C16: set_data(key, t) on a registered key stores t and returns the
\* previous value, and get_data(key) then returns t; on an unregistered
\* key it returns None and creates no record; the connection objects and
\* the data of all other keys stay as they are.
C16_SetData ==
    [][IsCall("set_data") =>
         /\ DOMAIN connections' = DOMAIN connections
         /\ SameElsewhere(connections, connections', last'.key)
         /\ IF last'.key \in DOMAIN connections
              THEN /\ last'.ret = Some(connections[last'.key].t)
                   /\ get_data(connections', last'.key) = Some(last'.arg)
                   /\ connections'[last'.key].con
                        = connections[last'.key].con
              ELSE /\ last'.ret = None
                   /\ connections' = connections]_vars

\* a value other than the default has displaced the default
C16_Witness ==
    /\ last.op = "set_data"
    /\ last.arg # DefaultData
    /\ last.ret = Some(DefaultData)
    /\ get_data(connections, last.key) = Some(last.arg)
    /\ Cardinality(DOMAIN connections) = 2

\* C17: remove_connection(key) returns the connection registered under key
\* and deletes its record with the attached data, or returns None and
\* changes nothing; afterwards get_connection(key), get_data(key) and
\* get_connection_for_udp_packet(key, _) return None; the records of all
\* other keys stay as they are.
C17_RemoveConnection ==
    [][IsCall("remove_connection") =>
         /\ SameElsewhere(connections, connections', last'.key)
         /\ get_connection(connections', last'.key) = None
         /\ get_data(connections', last'.key) = None
         /\ \A p \in Datagrams :
              udp_packet_key(connections', last'.key, p) = None
         /\ IF last'.key \in DOMAIN connections
              THEN last'.ret = Some(connections[last'.key].con)
              ELSE last'.ret = None /\ connections' = connections]_vars

\* a connection has been removed while another one stays registered
C17_Witness ==
    /\ last.op = "remove_connection"
    /\ last.ret # None
    /\ last.key \notin DOMAIN connections
    /\ Cardinality(DOMAIN connections) = 1

\* ========================================================================
\* Properties of hash_cash (checked under SpecHash)
\* ========================================================================
\* the number of zero bits before the first one bit of a digest, counted
\* bit by bit from the most significant bit of the first byte
Bit(digest, n) == (digest[(n \div 8) + 1] \div Pow(2, 7 - (n % 8))) % 2
LeadingZeroBits(digest) ==
    Cardinality({n \in 0..(8 * Len(digest) - 1) :
                    \A m \in 0..n : Bit(digest, m) = 0})

HashOmega == to_ts(hc.key)
HashLevelAt(offset) == get_hash_cash_level(HashOmega, offset)

\* get_hash_cash_level is the number of leading zero bits of the digest,
\* for all offsets up to the returned one
LevelIsLeadingZeroBits ==
    \A o \in 0..hc.offset :
        HashLevelAt(o)
            = LeadingZeroBits(sha1(format_omega_offset(HashOmega, o)))

\* C18 (as stated): the offset that hash_cash returns meets the level and
\* every smaller offset fails it; the level of an offset is the number of
\* leading zero bits of the digest.
C18_SmallestOffsetMeetsLevel ==
    hc.pc = "done" =>
        /\ HashLevelAt(hc.offset) >= hc.level
        /\ \A o \in 0..(hc.offset - 1) : HashLevelAt(o) < hc.level
        /\ LevelIsLeadingZeroBits

\* C18 (amended): every offset below the returned one fails the level, and
\* the returned offset meets the level unless it is u64::MAX, where the
\* search stops whether or not the level is met; the level of an offset is
\* the number of leading zero bits of the digest.
C18_SmallestOffsetOrLimit ==
    hc.pc = "done" =>
        /\ HashLevelAt(hc.offset) >= hc.level \/ hc.offset = OffsetMax
        /\ \A o \in 0..(hc.offset - 1) : HashLevelAt(o) < hc.level
        /\ LevelIsLeadingZeroBits

\* a search at level 8 that had to pass over offsets failing the level
C18_Witness ==
    /\ hc.pc = "done"
    /\ hc.level = 8
    /\ hc.offset > 0
    /\ hc.offset < OffsetMax
    /\ HashLevelAt(hc.offset) >= 8

\* ========================================================================
\* Properties of encrypt and decrypt (checked under SpecCrypt)
\* ========================================================================
DecryptOps == {"decrypt", "decrypt_fake", "decrypt_key_nonce"}
CacheOps == {"encrypt", "decrypt"}

\* the latest call was a decrypting one that returned
Decrypted == cr.op \in DecryptOps /\ ~cr.panicked

\* the MAC of the header is the start of the tag over the key and nonce
\* of the call, the header meta and the data as they were handed in
MacMatches ==
    SubSeq(Eax_tag(cr.key, cr.nonce, write_meta(header), cr.before),
           1, MacLen) = header.mac

\* the plaintext of the data handed in, under the key and nonce of the call
PlainOfBefore ==
    [j \in 1..Len(cr.before) |->
        (cr.before[j] + 256 - Eax_stream(cr.key, cr.nonce, j)) % 256]

\* C12: a decrypting call succeeds exactly if the MAC of the header matches
\* the tag computed over key, nonce, header meta and data; if it does not
\* match the call fails and the data buffer is what it was before the call;
\* the buffer holds the plaintext only after a successful call.
C12_BufferKeptOnMismatch ==
    Decrypted =>
        /\ cr.ok <=> MacMatches
        /\ ~cr.ok => buf = cr.before
        /\ cr.ok => buf = PlainOfBefore

\* a decrypt call on a packet whose MAC did not match: it failed and the
\* buffer still holds the bytes handed in, not the plaintext
C12_Witness ==
    /\ Decrypted
    /\ ~cr.ok
    /\ ~MacMatches
    /\ Len(buf) > 0
    /\ buf = cr.before
    /\ buf # PlainOfBefore

\* the decrypting call used what the encrypting call of the packet used:
\* the same key and nonce, the fake pair, or the same generation (the
\* SharedIv of a behaviour is one)
SameCredentials ==
    \/ /\ cr.op = "decrypt_key_nonce"
       /\ pkt.how = "encrypt_key_nonce"
       /\ cr.key = pkt.key
       /\ cr.nonce = pkt.nonce
    \/ cr.op = "decrypt_fake" /\ pkt.how = "encrypt_fake"
    \/ cr.op = "decrypt" /\ pkt.how = "encrypt" /\ cr.gen = pkt.gen

\* C13: decrypting a packet as it left the encrypting call, with the same
\* header and the same key and nonce, or the fake pair on both sides, or
\* the same generation_id and SharedIv on the sender's and the receiver's
\* cache, succeeds and gives back the data that was encrypted.
C13_DecryptInvertsEncrypt ==
    (Decrypted /\ cr.intact /\ SameCredentials) =>
        cr.ok /\ buf = pkt.plain

\* the part of C13 that does not go through the cache: explicit key and
\* nonce, and the fake pair
C13_ExplicitKeysInvert ==
    (Decrypted /\ cr.intact /\ SameCredentials /\ cr.op # "decrypt") =>
        cr.ok /\ buf = pkt.plain

\* the slot that the latest call of encrypt or decrypt selected
UsedSlot == cache[cr.side][slot_index(header)]

\* C19: after encrypt or decrypt was called with a generation_id other
\* than the one stored in the slot of the packet type, the slot has been
\* rebuilt and holds the derived key, the derived nonce and that
\* generation_id.
C19_RebuildStoresGeneration ==
    (cr.op \in CacheOps /\ ~cr.panicked /\ cr.stored # cr.gen) =>
        /\ cr.rebuilt
        /\ UsedSlot.key
             = SubSeq(sha256(temp(header, cr.gen, iv)), 1, KeyLen)
        /\ UsedSlot.nonce
             = SubSeq(sha256(temp(header, cr.gen, iv)), KeyLen + 1,
                      2 * KeyLen)
        /\ UsedSlot.generation_id = cr.gen

\* C20: a call of encrypt or decrypt with a header of a packet type of the
\* closed set does not index the cache out of range.
C20_SlotInsideCache ==
    (cr.op \in CacheOps /\ (header.p_type % 16) \in 0..8) => ~cr.panicked

\* the key and the nonce derived from the direction, the type nibble, the
\* generation_id of the latest call and the SharedIv
DerivedKey == SubSeq(sha256(temp(header, cr.gen, iv)), 1, KeyLen)
DerivedNonce ==
    SubSeq(sha256(temp(header, cr.gen, iv)), KeyLen + 1, 2 * KeyLen)

\* C21: the key and the nonce that a call of encrypt or decrypt uses are
\* the pair derived from the call's own direction, type, generation_id and
\* the SharedIv (the key with the p_id bytes XOR-ed in), whatever calls
\* were made on the cache before.
C21_KeyIsFreshlyDerived ==
    (cr.op \in CacheOps /\ ~cr.panicked) =>
        /\ cr.key = xor_p_id(DerivedKey, header.p_id)
        /\ cr.nonce = DerivedNonce

\* x is a ^ b on u8, bit by bit
IsXor(x, a, b) ==
    /\ x \in 0..255
    /\ \A i \in 0..7 :
         (x \div Pow(2, i)) % 2
             = ((a \div Pow(2, i)) + (b \div Pow(2, i))) % 2

\* a step that is a call of encrypt or decrypt which returned
CacheCallStep ==
    /\ cr'.op \in CacheOps
    /\ cr'.n = cr.n + 1
    /\ ~cr'.panicked

\* C22: the key a call of encrypt or decrypt uses is the slot's key with
\* byte 0 XOR-ed with the high byte of p_id and byte 1 with the low byte,
\* the other bytes and the nonce as in the slot; the slot itself holds no
\* XOR: it is what it was before the call, or the derived key and nonce if
\* the call rebuilt it, and no other slot changes.
C22_XorOnCopyOfKey ==
    [][CacheCallStep =>
        LET idx == slot_index(header')
            before == cache[cr'.side][idx]
            after == cache'[cr'.side][idx]
        IN /\ IsXor(cr'.key[1], after.key[1], (header'.p_id \div 256) % 256)
           /\ IsXor(cr'.key[2], after.key[2], header'.p_id % 256)
           /\ \A j \in 3..KeyLen : cr'.key[j] = after.key[j]
           /\ cr'.nonce = after.nonce
           /\ ~cr'.rebuilt => after = before
           /\ cr'.rebuilt =>
                /\ after.key
                     = SubSeq(sha256(temp(header', cr'.gen, iv)), 1, KeyLen)
                /\ after.nonce
                     = SubSeq(sha256(temp(header', cr'.gen, iv)),
                              KeyLen + 1, 2 * KeyLen)
           /\ \A s \in Sides, k \in 0..(CacheSlots - 1) :
                (s # cr'.side \/ k # idx) => cache'[s][k] = cache[s][k]
    ]_vars

\* a call with a p_id whose two bytes are not zero found a slot filled by
\* an earlier call and did not rebuild it: the key used differs from the
\* slot's key, which is still the key the earlier call stored
C22_Witness ==
    /\ cr.op \in CacheOps
    /\ ~cr.panicked
    /\ ~cr.rebuilt
    /\ cr.n >= 2
    /\ header.p_id \div 256 > 0
    /\ header.p_id % 256 > 0
    /\ UsedSlot.key # Zeros(KeyLen)
    /\ cr.key # UsedSlot.key
    /\ cr.nonce = UsedSlot.nonce

====
